---- MODULE Spec2Model ----
(***************************************************************************)
(* Model of 2gemini.py: the start-up (credential load, credential check,   *)
(* client configuration), the top-level driver, and                        *)
(* process_file_with_gemini with its stages (configuration check, input    *)
(* read, regex preprocessing, remote call, code-fence post-processing,     *)
(* output write).                                                          *)
(*                                                                         *)
(* A text is a sequence of one-character strings.  The regular             *)
(* expressions of the script are modelled by what Python's re.sub does:    *)
(* one left-to-right pass, leftmost match first, greedy quantifiers, the   *)
(* scan resuming after each match (matches never overlap).                 *)
(***************************************************************************)
EXTENDS Integers, Sequences, FiniteSets, TLC

VARIABLES
    pc,              \* position in the script / in process_file_with_gemini
    env_key,         \* what the environment / .env file offers as GOOGLE_API_KEY
    GOOGLE_API_KEY,  \* module global, line 17 / 20
    api_configured,  \* module global, line 28 / 32
    exit_reason,     \* which exit() ended the process ("" while running)
    job,             \* number of process_file_with_gemini calls the driver made
    file_path,       \* argument of the current call
    output_path,     \* argument of the current call
    raw_text,        \* local, line 61
    processed_text,  \* local, lines 68-73
    response,        \* what the remote call did in the current call
    generated_text,  \* local, lines 106 / 112 / 116 / 124 / 126
    inputs,          \* file system: the input paths that exist
    dirs,            \* file system: the directories that exist
    out_files,       \* file system: content of each output path
    pre_dirs,        \* dirs when the current call started
    pre_files,       \* out_files when the current call started
    events,          \* the I/O steps the current call has attempted, in order
    outcome          \* how the last finished call ended

vars == <<pc, env_key, GOOGLE_API_KEY, api_configured, exit_reason, job,
          file_path, output_path, raw_text, processed_text, response,
          generated_text, inputs, dirs, out_files, pre_dirs, pre_files,
          events, outcome>>

----------------------------------------------------------------------------
(* Bounds of the model *)

\* calls the driver makes (the script has one active call and one commented out)
NumJobs == 2
\* fragments per input text, tag-syntax families
MaxTagFrags == 4
\* fragments per input text, blank-line family
MaxBlankFrags == 4
\* fragments per input text, placeholder-line family
MaxZeroFrags == 5
\* fragments per response text
MaxRespFrags == 4

----------------------------------------------------------------------------
(* Characters and strings *)

\* the grave accent (a code fence is three of them)
Backtick == "U+0060"

\* Python's \s and str.strip() whitespace, restricted to the model's alphabet
IsSpace(c) == c \in {" ", "\t", "\n", "\r", "\f"}

UpperChars == <<"A","B","C","D","E","F","G","H","I","J","K","L","M",
                "N","O","P","Q","R","S","T","U","V","W","X","Y","Z">>
LowerChars == <<"a","b","c","d","e","f","g","h","i","j","k","l","m",
                "n","o","p","q","r","s","t","u","v","w","x","y","z">>

\* str.lower() on one character; also re.IGNORECASE folding
Lower(c) ==
    IF \E k \in 1..26 : UpperChars[k] = c
    THEN LowerChars[CHOOSE k \in 1..26 : UpperChars[k] = c]
    ELSE c

\* str.lower()
LowerText(t) == [k \in 1..Len(t) |-> Lower(t[k])]

SetMax(S) == CHOOSE x \in S : \A y \in S : y <= x
SetMin(S) == CHOOSE x \in S : \A y \in S : x <= y

\* the literal p occurs in t at index i
MatchAt(t, i, p) ==
    /\ i >= 1
    /\ i + Len(p) - 1 <= Len(t)
    /\ \A k \in 1..Len(p) : t[i + k - 1] = p[k]

\* the same under re.IGNORECASE
MatchAtNoCase(t, i, p) ==
    /\ i >= 1
    /\ i + Len(p) - 1 <= Len(t)
    /\ \A k \in 1..Len(p) : Lower(t[i + k - 1]) = Lower(p[k])

\* p in t
Contains(t, p) == \E i \in 1..(Len(t) + 1) : MatchAt(t, i, p)

\* str.startswith
StartsWith(t, p) == MatchAt(t, 1, p)

\* str.endswith
EndsWith(t, p) == Len(t) >= Len(p) /\ MatchAt(t, Len(t) - Len(p) + 1, p)

\* str.strip()
Strip(t) ==
    LET solid == {k \in 1..Len(t) : ~IsSpace(t[k])}
    IN  IF solid = {} THEN <<>> ELSE SubSeq(t, SetMin(solid), SetMax(solid))

\* first index >= j of t that holds no whitespace (Len(t) + 1 when none): where a
\* greedy \s* starting at j stops
SkipSpace(t, j) ==
    CHOOSE e \in j..(Len(t) + 1) :
        /\ \A k \in j..(e - 1) : IsSpace(t[k])
        /\ e = Len(t) + 1 \/ ~IsSpace(t[e])

\* re.sub(pattern, repl, t): ends[i] is the index of the last character of the
\* pattern's match starting at i, 0 when the pattern does not match there
RECURSIVE SubFrom(_, _, _, _)
SubFrom(t, ends, repl, i) ==
    IF i > Len(t) THEN <<>>
    ELSE IF ends[i] # 0 THEN repl \o SubFrom(t, ends, repl, ends[i] + 1)
    ELSE <<t[i]>> \o SubFrom(t, ends, repl, i + 1)

ReSub(t, ends, repl) == SubFrom(t, ends, repl, 1)

----------------------------------------------------------------------------
(* The preprocessing of lines 68-73 *)

BR == <<"<", "b", "r">>
IMG == <<"<", "i", "m", "g">>
ZERO_LINE == <<"\n", "\n", "0", "\n", "\n">>
BLANK_LINE == <<"\n", "\n">>
DIGIPANP == <<"d", "i", "g", "i", "p", "a", "n", "p">>

\* re.IGNORECASE left out: the tag name matched as written
BrMatchEnd_CaseSensitive(t, i) ==
    IF ~MatchAt(t, i, BR) THEN 0
    ELSE LET j == SkipSpace(t, i + 3)
             k == IF j <= Len(t) /\ t[j] = "/" THEN j + 1 ELSE j
         IN  IF k <= Len(t) /\ t[k] = ">" THEN k ELSE 0

\* r"<br\s*/?>" with re.IGNORECASE, matched at i
BrMatchEnd(t, i) ==
    IF ~MatchAtNoCase(t, i, BR) THEN 0
    ELSE LET j == SkipSpace(t, i + 3)
             k == IF j <= Len(t) /\ t[j] = "/" THEN j + 1 ELSE j
         IN  IF k <= Len(t) /\ t[k] = ">" THEN k ELSE 0

\* line 68
BrToNewline(t) == ReSub(t, [i \in 1..Len(t) |-> BrMatchEnd(t, i)], <<"\n">>)

\* a non-greedy \s*?: the match stops at the first newline that follows
BlankMatchEnd_Lazy(t, i) ==
    IF t[i] # "\n" THEN 0
    ELSE LET e == SkipSpace(t, i + 1)
             nls == {k \in (i + 1)..(e - 1) : t[k] = "\n"}
         IN  IF nls = {} THEN 0 ELSE SetMin(nls)

\* r"\n\s*\n" matched at i: greedy \s* backtracks to the last newline of the
\* whitespace run
BlankMatchEnd(t, i) ==
    IF t[i] # "\n" THEN 0
    ELSE LET e == SkipSpace(t, i + 1)
             nls == {k \in (i + 1)..(e - 1) : t[k] = "\n"}
         IN  IF nls = {} THEN 0 ELSE SetMax(nls)

\* line 69
CollapseBlankLines(t) ==
    ReSub(t, [i \in 1..Len(t) |-> BlankMatchEnd(t, i)], BLANK_LINE)

\* re.IGNORECASE left out: the tag name matched as written
ImgMatchEnd_CaseSensitive(t, i) ==
    IF ~MatchAt(t, i, IMG) \/ i + 4 > Len(t) THEN 0
    ELSE IF ~IsSpace(t[i + 4]) THEN 0
    ELSE LET gts == {k \in (i + 5)..Len(t) : t[k] = ">"}
         IN  IF gts = {} THEN 0 ELSE SetMin(gts)

\* r"<img\s+[^>]*>" with re.IGNORECASE, matched at i: at least one whitespace
\* character after the name, then everything up to the first ">"
ImgMatchEnd(t, i) ==
    IF ~MatchAtNoCase(t, i, IMG) \/ i + 4 > Len(t) THEN 0
    ELSE IF ~IsSpace(t[i + 4]) THEN 0
    ELSE LET gts == {k \in (i + 5)..Len(t) : t[k] = ">"}
         IN  IF gts = {} THEN 0 ELSE SetMin(gts)

\* line 72
RemoveImgTags(t) == ReSub(t, [i \in 1..Len(t) |-> ImgMatchEnd(t, i)], <<>>)

\* r"\n\n0\n\n" matched at i
ZeroMatchEnd(t, i) == IF MatchAt(t, i, ZERO_LINE) THEN i + 4 ELSE 0

\* line 73
RemoveZeroLines(t) ==
    ReSub(t, [i \in 1..Len(t) |-> ZeroMatchEnd(t, i)], BLANK_LINE)

\* line 70: "digipanp" in file_path.lower()
IsDigiPanp(path) == Contains(LowerText(path), DIGIPANP)

\* lines 68-73
Preprocess(path, t) ==
    LET collapsed == CollapseBlankLines(BrToNewline(t))
    IN  IF IsDigiPanp(path)
        THEN RemoveZeroLines(RemoveImgTags(collapsed))
        ELSE collapsed

----------------------------------------------------------------------------
(* The post-processing of lines 123-126 *)

OPENER == <<Backtick, Backtick, Backtick, "m", "a", "r", "k", "d", "o", "w", "n">>
FENCE == <<Backtick, Backtick, Backtick>>

\* t[n:]
DropFirst(t, n) == SubSeq(t, n + 1, Len(t))
\* t[:-n]
DropLast(t, n) == SubSeq(t, 1, Len(t) - n)

\* the closing fence left in place
StripFence_OpenerOnly(g) ==
    IF StartsWith(Strip(g), OPENER)
    THEN Strip(DropFirst(Strip(g), Len(OPENER)))
    ELSE g

\* lines 123-126
StripFence(g) ==
    IF StartsWith(Strip(g), OPENER)
    THEN LET g1 == Strip(DropFirst(Strip(g), Len(OPENER)))
         IN  IF EndsWith(Strip(g1), FENCE)
             THEN Strip(DropLast(Strip(g1), Len(FENCE)))
             ELSE g1
    ELSE g

----------------------------------------------------------------------------
(* Values *)

\* generated_text = None (lines 112, 116)
NoText == [some |-> FALSE, text |-> <<>>]
\* a str value
Some(t) == [some |-> TRUE, text |-> t]

\* lines 150-151, without the working directory they are joined to
digipanp_file_path ==
    <<"K", "I", "C", "_", "d", "i", "g", "i", "P", "a", "n", "p", ".", "m", "d">>
gakusoku_file_path ==
    <<"k", "i", "c", "-", "g", "a", "k", "u", "s", "o", "k", "u", ".", "m", "d">>
FilePaths == {digipanp_file_path, gakusoku_file_path}

\* the directory both input files live in
RagDir == <<"AI-E-03", "RAG">>

\* An output path is given split as os.path.dirname splits it: dir is the list of
\* the directory's components (<<>> when the path has no directory part).
digipanp_marked_path == [dir |-> RagDir, base |-> "KIC_digiPanp_marked_gemini.md"]
\* output paths a caller may pass: in a directory of its own, and without one
fresh_marked_path == [dir |-> <<"marked", "gemini">>, base |-> "kic-gakusoku_marked_gemini.md"]
bare_marked_path == [dir |-> <<>>, base |-> "marked_gemini.md"]
OutputPaths == {digipanp_marked_path, fresh_marked_path, bare_marked_path}

\* a directory and its parents
Ancestors(d) == {SubSeq(d, 1, k) : k \in 1..Len(d)}
AllDirs == UNION {Ancestors(p.dir) : p \in OutputPaths}

\* os.makedirs(output_dir) creating only the last component
Makedirs_LeafOnly(ds, d) == ds \cup {d}

\* line 134: os.makedirs(output_dir) creates the directory and its missing parents
Makedirs(ds, d) == ds \cup Ancestors(d)

\* what an existing output file holds before the script runs
OldContent == <<"o", "l", "d">>

\* what the input file holds when it is read (line 61)
InputTexts == {<<"a">>, <<"a", "<", "b", "r", ">", "\n", "\n", "\n", "0">>}

\* texts the remote model answers with
ResponseTexts ==
    {<<>>, <<"a">>, OPENER \o <<"\n", "a", " ", "\n">> \o FENCE}

\* what model.generate_content does (lines 97-112): raise, answer without a text
\* attribute (with or without a block reason), or answer with text
Responses ==
    {[kind |-> k, text |-> <<>>] : k \in {"raise", "no_text", "blocked"}}
        \cup {[kind |-> "text", text |-> t] : t \in ResponseTexts}

NoResponse == [kind |-> "none", text |-> <<>>]

\* the hasattr test of line 105 left out: a response without text read as ""
ResponseText_NoHasattr(r) == IF r.kind = "raise" THEN NoText ELSE Some(r.text)

\* lines 105-116: generated_text after the remote call
ResponseText(r) == IF r.kind = "text" THEN Some(r.text) ELSE NoText

\* "not GOOGLE_API_KEY" (lines 13, 23) is true of None and of the empty string
HasKey(k) == k \notin {"None", ""}

----------------------------------------------------------------------------
(* Control flow of process_file_with_gemini: the stage after each stage, given
   whether the stage succeeded.  "driver" is a return to the caller. *)

FuncStages ==
    {"f_config", "f_exists", "f_read", "f_preprocess", "f_call",
     "f_postprocess", "f_save"}

\* the except clause of lines 140-142 missing: a write error reaches the caller
NextStage_WriteErrorRaises(stage, ok) ==
    CASE stage = "f_config" -> IF ok THEN "f_exists" ELSE "driver"
      [] stage = "f_exists" -> IF ok THEN "f_read" ELSE "driver"
      [] stage = "f_read" -> IF ok THEN "f_preprocess" ELSE "driver"
      [] stage = "f_preprocess" -> "f_call"
      [] stage = "f_call" -> IF ok THEN "f_postprocess" ELSE "driver"
      [] stage = "f_postprocess" -> "f_save"
      [] stage = "f_save" -> IF ok THEN "driver" ELSE "raised"

\* a retry of the remote call after a failure
NextStage_RetryCall(stage, ok) ==
    CASE stage = "f_config" -> IF ok THEN "f_exists" ELSE "driver"
      [] stage = "f_exists" -> IF ok THEN "f_read" ELSE "driver"
      [] stage = "f_read" -> IF ok THEN "f_preprocess" ELSE "driver"
      [] stage = "f_preprocess" -> "f_call"
      [] stage = "f_call" -> IF ok THEN "f_postprocess" ELSE "f_call"
      [] stage = "f_postprocess" -> "f_save"
      [] stage = "f_save" -> "driver"

\* lines 49-51, 54-56, 63-65, 118-120, 140-142: every failure returns
NextStage(stage, ok) ==
    CASE stage = "f_config" -> IF ok THEN "f_exists" ELSE "driver"
      [] stage = "f_exists" -> IF ok THEN "f_read" ELSE "driver"
      [] stage = "f_read" -> IF ok THEN "f_preprocess" ELSE "driver"
      [] stage = "f_preprocess" -> "f_call"
      [] stage = "f_call" -> IF ok THEN "f_postprocess" ELSE "driver"
      [] stage = "f_postprocess" -> "f_save"
      [] stage = "f_save" -> "driver"

----------------------------------------------------------------------------
(* Initial states *)

\* the file systems the script can start in: directories closed under parent,
\* files only in directories that exist
FileSystems ==
    {fs \in [ins : SUBSET FilePaths, ds : SUBSET AllDirs,
             outs : [OutputPaths -> {NoText, Some(OldContent)}]] :
        /\ \A d \in fs.ds : Ancestors(d) \subseteq fs.ds
        /\ fs.ins # {} => RagDir \in fs.ds
        /\ \A p \in OutputPaths :
              fs.outs[p].some /\ p.dir # <<>> => p.dir \in fs.ds}

\* the locals of a call before the call has set them
NoCall ==
    /\ file_path = <<>>
    /\ output_path = bare_marked_path
    /\ raw_text = NoText
    /\ processed_text = NoText
    /\ response = NoResponse
    /\ generated_text = NoText
    /\ events = <<>>
    /\ outcome = "none"

Init ==
    /\ pc = "load_env"
    /\ env_key \in {"None", "", "key"}
    /\ GOOGLE_API_KEY = "unset"
    /\ api_configured = FALSE
    /\ exit_reason = ""
    /\ job = 0
    /\ NoCall
    /\ \E fs \in FileSystems :
          /\ inputs = fs.ins
          /\ dirs = fs.ds
          /\ out_files = fs.outs
          /\ pre_dirs = fs.ds
          /\ pre_files = fs.outs

----------------------------------------------------------------------------
(* Start-up, lines 9-35 *)

\* lines 9-20: the key from .env or the environment; None when loading raises
LoadEnv ==
    /\ pc = "load_env"
    /\ \/ GOOGLE_API_KEY' = env_key
       \/ GOOGLE_API_KEY' = "None"
    /\ pc' = "check_key"
    /\ UNCHANGED <<env_key, api_configured, exit_reason, job, file_path,
                   output_path, raw_text, processed_text, response,
                   generated_text, inputs, dirs, out_files, pre_dirs,
                   pre_files, events, outcome>>

\* lines 23-25
CheckKey ==
    /\ pc = "check_key"
    /\ IF ~HasKey(GOOGLE_API_KEY)
       THEN pc' = "exited" /\ exit_reason' = "no_credential"
       ELSE pc' = "configure" /\ UNCHANGED exit_reason
    /\ UNCHANGED <<env_key, GOOGLE_API_KEY, api_configured, job, file_path,
                   output_path, raw_text, processed_text, response,
                   generated_text, inputs, dirs, out_files, pre_dirs,
                   pre_files, events, outcome>>

\* lines 28-35: genai.configure succeeds, or raises and the script exits
Configure ==
    /\ pc = "configure"
    /\ \/ /\ api_configured' = TRUE
          /\ pc' = "driver"
          /\ UNCHANGED exit_reason
       \/ /\ pc' = "exited"
          /\ exit_reason' = "configure_failed"
          /\ UNCHANGED api_configured
    /\ UNCHANGED <<env_key, GOOGLE_API_KEY, job, file_path, output_path,
                   raw_text, processed_text, response, generated_text,
                   inputs, dirs, out_files, pre_dirs, pre_files, events,
                   outcome>>

----------------------------------------------------------------------------
(* The driver, lines 161-177 *)

\* line 165 (and 168): one call of process_file_with_gemini
DriverCall ==
    /\ pc = "driver"
    /\ HasKey(GOOGLE_API_KEY) /\ api_configured
    /\ job < NumJobs
    /\ job' = job + 1
    /\ \E fp \in FilePaths, op \in OutputPaths :
          /\ file_path' = fp
          /\ output_path' = op
    /\ raw_text' = NoText
    /\ processed_text' = NoText
    /\ response' = NoResponse
    /\ generated_text' = NoText
    /\ events' = <<>>
    /\ pre_dirs' = dirs
    /\ pre_files' = out_files
    /\ pc' = "f_config"
    /\ UNCHANGED <<env_key, GOOGLE_API_KEY, api_configured, exit_reason,
                   inputs, dirs, out_files, outcome>>

\* lines 170-177: the closing messages; the script ends
DriverFinish ==
    /\ pc = "driver"
    /\ ~(HasKey(GOOGLE_API_KEY) /\ api_configured) \/ job = NumJobs
    /\ pc' = "done"
    /\ UNCHANGED <<env_key, GOOGLE_API_KEY, api_configured, exit_reason, job,
                   file_path, output_path, raw_text, processed_text, response,
                   generated_text, inputs, dirs, out_files, pre_dirs,
                   pre_files, events, outcome>>

----------------------------------------------------------------------------
(* process_file_with_gemini, lines 44-144 *)

\* lines 49-51
CheckConfigured ==
    /\ pc = "f_config"
    /\ events' = Append(events, "config")
    /\ pc' = NextStage("f_config", api_configured)
    /\ outcome' = IF api_configured THEN outcome ELSE "not_configured"
    /\ UNCHANGED <<env_key, GOOGLE_API_KEY, api_configured, exit_reason, job,
                   file_path, output_path, raw_text, processed_text, response,
                   generated_text, inputs, dirs, out_files, pre_dirs,
                   pre_files>>

\* lines 54-56
CheckExists ==
    /\ pc = "f_exists"
    /\ events' = Append(events, "exists")
    /\ pc' = NextStage("f_exists", file_path \in inputs)
    /\ outcome' = IF file_path \in inputs THEN outcome ELSE "not_found"
    /\ UNCHANGED <<env_key, GOOGLE_API_KEY, api_configured, exit_reason, job,
                   file_path, output_path, raw_text, processed_text, response,
                   generated_text, inputs, dirs, out_files, pre_dirs,
                   pre_files>>

\* lines 59-65: the read gives the file's text, or raises and the call returns
ReadFile ==
    /\ pc = "f_read"
    /\ events' = Append(events, "read")
    /\ \/ /\ \E t \in InputTexts : raw_text' = Some(t)
          /\ pc' = NextStage("f_read", TRUE)
          /\ UNCHANGED outcome
       \/ /\ pc' = NextStage("f_read", FALSE)
          /\ outcome' = "read_error"
          /\ UNCHANGED raw_text
    /\ UNCHANGED <<env_key, GOOGLE_API_KEY, api_configured, exit_reason, job,
                   file_path, output_path, processed_text, response,
                   generated_text, inputs, dirs, out_files, pre_dirs,
                   pre_files>>

\* lines 68-73
PreprocessText ==
    /\ pc = "f_preprocess"
    /\ processed_text' = Some(Preprocess(file_path, raw_text.text))
    /\ pc' = NextStage("f_preprocess", TRUE)
    /\ UNCHANGED <<env_key, GOOGLE_API_KEY, api_configured, exit_reason, job,
                   file_path, output_path, raw_text, response, generated_text,
                   inputs, dirs, out_files, pre_dirs, pre_files, events,
                   outcome>>

\* lines 96-120: one request; no text means the call returns
CallGemini ==
    /\ pc = "f_call"
    /\ events' = Append(events, "call")
    /\ \E r \in Responses :
          /\ response' = r
          /\ generated_text' = ResponseText(r)
          /\ pc' = NextStage("f_call", ResponseText(r).some)
          /\ outcome' = IF ResponseText(r).some THEN outcome ELSE "remote_failed"
    /\ UNCHANGED <<env_key, GOOGLE_API_KEY, api_configured, exit_reason, job,
                   file_path, output_path, raw_text, processed_text, inputs,
                   dirs, out_files, pre_dirs, pre_files>>

\* lines 123-126
PostprocessText ==
    /\ pc = "f_postprocess"
    /\ generated_text' = Some(StripFence(generated_text.text))
    /\ pc' = NextStage("f_postprocess", TRUE)
    /\ UNCHANGED <<env_key, GOOGLE_API_KEY, api_configured, exit_reason, job,
                   file_path, output_path, raw_text, processed_text, response,
                   inputs, dirs, out_files, pre_dirs, pre_files, events,
                   outcome>>

\* line 133: the directory has to be created
NeedsMakedirs == output_path.dir # <<>> /\ output_path.dir \notin dirs

\* the steps of lines 132-138 up to and including open()
OpenEvents == IF NeedsMakedirs THEN <<"makedirs", "open">> ELSE <<"open">>

\* lines 130-142
SaveFile ==
    /\ pc = "f_save"
    /\ \/ \* os.makedirs raises, having created some of the parents
          /\ NeedsMakedirs
          /\ \E k \in 0..(Len(output_path.dir) - 1) :
                dirs' = dirs \cup Ancestors(SubSeq(output_path.dir, 1, k))
          /\ events' = Append(events, "makedirs")
          /\ pc' = NextStage("f_save", FALSE)
          /\ outcome' = "write_error"
          /\ UNCHANGED out_files
       \/ \* open() raises
          /\ dirs' = IF NeedsMakedirs THEN Makedirs(dirs, output_path.dir) ELSE dirs
          /\ events' = events \o OpenEvents
          /\ pc' = NextStage("f_save", FALSE)
          /\ outcome' = "write_error"
          /\ UNCHANGED out_files
       \/ \* f.write raises after open() truncated the file: part of the text is there
          /\ dirs' = IF NeedsMakedirs THEN Makedirs(dirs, output_path.dir) ELSE dirs
          /\ events' = events \o OpenEvents
          /\ \E k \in 0..Len(generated_text.text) :
                out_files' = [out_files EXCEPT
                                 ![output_path] = Some(SubSeq(generated_text.text, 1, k))]
          /\ pc' = NextStage("f_save", FALSE)
          /\ outcome' = "write_error"
       \/ \* the write succeeds
          /\ dirs' = IF NeedsMakedirs THEN Makedirs(dirs, output_path.dir) ELSE dirs
          /\ events' = events \o OpenEvents
          /\ out_files' = [out_files EXCEPT ![output_path] = Some(generated_text.text)]
          /\ pc' = NextStage("f_save", TRUE)
          /\ outcome' = "saved"
    /\ UNCHANGED <<env_key, GOOGLE_API_KEY, api_configured, exit_reason, job,
                   file_path, output_path, raw_text, processed_text, response,
                   generated_text, inputs, pre_dirs, pre_files>>

Next ==
    \/ LoadEnv
    \/ CheckKey
    \/ Configure
    \/ DriverCall
    \/ DriverFinish
    \/ CheckConfigured
    \/ CheckExists
    \/ ReadFile
    \/ PreprocessText
    \/ CallGemini
    \/ PostprocessText
    \/ SaveFile

Spec == Init /\ [][Next]_vars

----------------------------------------------------------------------------
(* The preprocessing alone, on input texts built from fragments *)

RECURSIVE Concat(_)
Concat(ss) == IF ss = <<>> THEN <<>> ELSE Head(ss) \o Concat(Tail(ss))

\* the texts made of at most n fragments of F
TextsOf(F, n) == {Concat(ss) : ss \in UNION {[1..k -> F] : k \in 0..n}}

\* pieces of <br> tags, in both cases and with whitespace inside
BrFrags == {<<"<", "b", "r">>, <<"<", "B", "r">>, <<" ">>, <<"/">>, <<">">>, <<"\n">>}
\* pieces of <img> tags
ImgFrags ==
    {<<"<", "i", "m", "g">>, <<"<", "I", "M", "G">>, <<" ">>, <<"/">>, <<">">>,
     <<"<", "i", "m", "g", " ", "x", ">">>}
\* lines, blank lines and whole tags
BlankFrags ==
    {<<"\n">>, <<"\n", "\n">>, <<" ">>, <<"a">>, <<"<", "b", "r", ">">>,
     <<"<", "i", "m", "g", " ", "x", ">">>}
\* placeholder lines
ZeroFrags == {<<"\n", "\n">>, <<"0">>, <<"a">>}

PreprocessInputs ==
    TextsOf(BrFrags, MaxTagFrags) \cup TextsOf(ImgFrags, MaxTagFrags)
        \cup TextsOf(BlankFrags, MaxBlankFrags) \cup TextsOf(ZeroFrags, MaxZeroFrags)

\* a call that has read its input file (lines 44-65 done)
InitPreprocess ==
    /\ pc = "f_preprocess"
    /\ env_key = "key"
    /\ GOOGLE_API_KEY = "key"
    /\ api_configured = TRUE
    /\ exit_reason = ""
    /\ job = 1
    /\ file_path \in FilePaths
    /\ output_path = digipanp_marked_path
    /\ \E t \in PreprocessInputs : raw_text = Some(t)
    /\ processed_text = NoText
    /\ response = NoResponse
    /\ generated_text = NoText
    /\ inputs = FilePaths
    /\ dirs = Ancestors(RagDir)
    /\ out_files = [p \in OutputPaths |-> NoText]
    /\ pre_dirs = dirs
    /\ pre_files = out_files
    /\ events = <<"config", "exists", "read">>
    /\ outcome = "none"

NextPreprocess == PreprocessText

SpecPreprocess == InitPreprocess /\ [][NextPreprocess]_vars

----------------------------------------------------------------------------
(* The post-processing and the write alone, on response texts built from
   fragments *)

RespFrags == {OPENER, FENCE, <<"\n">>, <<" ">>, <<"a">>}

PostprocessInputs == TextsOf(RespFrags, MaxRespFrags)

\* a call whose remote request has returned text (lines 44-120 done)
InitPostprocess ==
    /\ pc = "f_postprocess"
    /\ env_key = "key"
    /\ GOOGLE_API_KEY = "key"
    /\ api_configured = TRUE
    /\ exit_reason = ""
    /\ job = 1
    /\ file_path = gakusoku_file_path
    /\ output_path = fresh_marked_path
    /\ raw_text = Some(<<"a">>)
    /\ processed_text = Some(<<"a">>)
    /\ \E t \in PostprocessInputs :
          /\ response = [kind |-> "text", text |-> t]
          /\ generated_text = Some(t)
    /\ inputs = FilePaths
    /\ dirs = Ancestors(RagDir)
    /\ out_files = [p \in OutputPaths |-> NoText]
    /\ pre_dirs = dirs
    /\ pre_files = out_files
    /\ events = <<"config", "exists", "read", "call">>
    /\ outcome = "none"

NextPostprocess ==
    \/ PostprocessText
    \/ SaveFile

SpecPostprocess == InitPostprocess /\ [][NextPostprocess]_vars

----------------------------------------------------------------------------
(* Properties *)

Range(f) == {f[k] : k \in DOMAIN f}
IsPrefix(a, b) == Len(a) <= Len(b) /\ SubSeq(b, 1, Len(a)) = a

\* the remote call of the current call failed: it raised or gave no text
RemoteFailed == response.kind \in {"raise", "no_text", "blocked"}

\* the current call has returned to the driver
Returned == pc = "driver" /\ job > 0

\* C1: if the remote call raises, the response has no text, or the credential is
\* missing at start-up, no output file (and no directory) is created or modified:
\* the file system is as it was when the call (the script) started.
C1_FailureLeavesOutputUntouched ==
    /\ RemoteFailed => out_files = pre_files /\ dirs = pre_dirs
    /\ (GOOGLE_API_KEY # "unset" /\ ~HasKey(GOOGLE_API_KEY)) =>
          out_files = pre_files /\ dirs = pre_dirs

\* a call whose remote request raised has returned, and the output file that
\* existed before still holds its old content
C1_Witness ==
    /\ Returned
    /\ response.kind = "raise"
    /\ pre_files[output_path] = Some(OldContent)
    /\ out_files[output_path] = Some(OldContent)

\* the ways a call can fail
Failures == {"not_configured", "not_found", "read_error", "remote_failed", "write_error"}

\* C5: every failure inside process_file_with_gemini ends the call by a normal
\* return: no exception reaches the caller, the process does not exit once calls
\* have started, and after a failed call the driver's next call can run.
C5_FailureReturnsToDriver ==
    /\ pc # "raised"
    /\ job > 0 => exit_reason = ""
    /\ (Returned /\ outcome \in Failures /\ job < NumJobs) => ENABLED DriverCall

\* the second call is running after the first one ended in a write error
C5_Witness ==
    /\ job = 2
    /\ pc = "f_config"
    /\ outcome = "write_error"

\* C6: the only path on which the script ends the whole process early is the
\* start-up check that finds the credential absent.
C6_OnlyMissingCredentialExits ==
    pc = "exited" => ~HasKey(GOOGLE_API_KEY)

\* the remote call returned text and the directory of the output path did not
\* exist when the call started
MissingDirCase ==
    /\ Returned
    /\ response.kind = "text"
    /\ output_path.dir # <<>>
    /\ output_path.dir \notin pre_dirs

StageOrder == <<"config", "exists", "read", "call", "open">>
NotMakedirs(e) == e # "makedirs"

\* C10: in one call the stages happen in the fixed order configuration check,
\* input check and read, remote call, output open, each at most once; the remote
\* model is called only after the input was read, the output file is opened only
\* after the remote call returned text, and a call with the client not configured
\* touches no file.
C10_StagesInOrderAtMostOnce ==
    /\ IsPrefix(SelectSeq(events, NotMakedirs), StageOrder)
    /\ "call" \in Range(events) => raw_text.some
    /\ "open" \in Range(events) => response.kind = "text"
    /\ "makedirs" \in Range(events) => response.kind = "text"
    /\ (pc \in FuncStages \cup {"driver"} /\ ~api_configured) =>
          Range(events) \subseteq {"config"}

\* a call went through every stage once and saved its output
C10_Witness ==
    /\ Returned
    /\ outcome = "saved"
    /\ SelectSeq(events, NotMakedirs) = StageOrder

----------------------------------------------------------------------------
(* Properties of the post-processing *)

\* the response text begins with the opener and ends with a closing fence of its own
Fenced(r) ==
    /\ Len(r) >= Len(OPENER) + Len(FENCE)
    /\ StartsWith(r, OPENER)
    /\ EndsWith(r, FENCE)

\* the text between the opener and the closing fence
Inner(r) == SubSeq(r, Len(OPENER) + 1, Len(r) - Len(FENCE))

\* a call saved the text of a fenced response
FencedSaved ==
    /\ Returned
    /\ outcome = "saved"
    /\ response.kind = "text"
    /\ Fenced(response.text)

\* C2 as stated: for a response that begins with the opener and ends with a
\* closing fence, the text written is exactly the text between them, its leading
\* and trailing whitespace included.
C2_InnerTextWrittenVerbatim ==
    FencedSaved => out_files[output_path] = Some(Inner(response.text))

\* C2 amended: for such a response the text written is the text between the
\* opener and the closing fence with its leading and trailing whitespace
\* stripped; both fences are removed and every other character is kept.
C2_InnerTextWrittenStripped ==
    FencedSaved => out_files[output_path] = Some(Strip(Inner(response.text)))

\* a fenced response whose inner text has whitespace at an end was saved
C2_Witness ==
    /\ FencedSaved
    /\ Strip(Inner(response.text)) # <<>>
    /\ Strip(Inner(response.text)) # Inner(response.text)

----------------------------------------------------------------------------
(* Properties of the preprocessing *)

Preprocessed == processed_text.some

\* the text after lines 68-69, before the special-category cleanup
Collapsed == CollapseBlankLines(BrToNewline(raw_text.text))

\* C3: on a special-category path the normalized text holds no line consisting
\* only of "0" with a blank line before and after it, also when several such
\* lines follow one another separated by single blank lines.
C3_NoIsolatedZeroLineLeft ==
    (Preprocessed /\ IsDigiPanp(file_path)) =>
        ~Contains(processed_text.text, <<"\n", "\n", "0", "\n", "\n">>)

\* an <img> tag starts at i: the name, then whitespace, "/" or ">", closed by a ">"
IsImgTagAt(t, i) ==
    /\ MatchAtNoCase(t, i, <<"<", "i", "m", "g">>)
    /\ i + 4 <= Len(t)
    /\ IsSpace(t[i + 4]) \/ t[i + 4] \in {"/", ">"}
    /\ \E k \in (i + 4)..Len(t) : t[k] = ">"

\* an <img> tag whose name is followed by whitespace starts at i
IsSpacedImgTagAt(t, i) ==
    /\ MatchAtNoCase(t, i, <<"<", "i", "m", "g">>)
    /\ i + 4 <= Len(t)
    /\ IsSpace(t[i + 4])
    /\ \E k \in (i + 5)..Len(t) : t[k] = ">"

HasImgTag(t) == \E i \in 1..Len(t) : IsImgTagAt(t, i)
HasSpacedImgTag(t) == \E i \in 1..Len(t) : IsSpacedImgTagAt(t, i)

\* a tag that is removed stands directly after a piece of "<img": removing it
\* joins that piece to what follows the tag
ImgTagInsideBrokenTag(t) ==
    \E j \in 2..Len(t) :
        /\ IsSpacedImgTagAt(t, j)
        /\ Lower(t[j - 1]) \in {"<", "i", "m", "g"}

\* C4 as stated: on a special-category path every <img> tag, with or without
\* attributes, self-closing or not, is gone from the normalized text.
C4_NoImgTagLeft ==
    (Preprocessed /\ IsDigiPanp(file_path)) => ~HasImgTag(processed_text.text)

\* C4 amended: on a special-category path every <img ...> tag whose name is
\* followed by whitespace (a tag with attributes, self-closing or not, in any
\* letter case) is removed entirely; a tag with nothing or a slash directly after
\* the name (<img>, <IMG/>) is left in place.  Such a tag is found in the
\* normalized text only when a removed tag stood directly after a piece of "<img",
\* so that its removal joined the pieces.
C4_SpacedImgTagsRemoved ==
    (Preprocessed /\ IsDigiPanp(file_path) /\ HasSpacedImgTag(processed_text.text)) =>
        ImgTagInsideBrokenTag(Collapsed)

\* an upper-case tag with whitespace after its name was in the input of a
\* special-category file and the normalized text holds no such tag
C4_Witness ==
    /\ Preprocessed
    /\ IsDigiPanp(file_path)
    /\ \E i \in 1..Len(raw_text.text) :
          /\ IsSpacedImgTagAt(raw_text.text, i)
          /\ MatchAt(raw_text.text, i, <<"<", "I", "M", "G">>)
    /\ ~HasSpacedImgTag(processed_text.text)

THREE_NEWLINES == <<"\n", "\n", "\n">>

\* C7 as stated: on any path, special-category paths included, the normalized
\* text holds no run of three or more newlines.
C7_NoTripleNewlineAnyPath ==
    Preprocessed => ~Contains(processed_text.text, THREE_NEWLINES)

\* C7 amended: every run of three or more newlines of the input is replaced by
\* exactly two, so that the text after the collapse step holds no run of three or
\* more newlines on any path, and the normalized text holds none when the path
\* is not a special-category path (on a special-category path the later removal
\* of an image tag can join newlines into a longer run again).
C7_NoTripleNewlineAfterCollapse ==
    Preprocessed =>
        /\ ~Contains(Collapsed, THREE_NEWLINES)
        /\ ~IsDigiPanp(file_path) => ~Contains(processed_text.text, THREE_NEWLINES)

\* an input with a run of three newlines was normalized on an ordinary path
C7_Witness ==
    /\ Preprocessed
    /\ ~IsDigiPanp(file_path)
    /\ Contains(raw_text.text, THREE_NEWLINES)
    /\ Contains(processed_text.text, <<"\n", "\n">>)

\* a <br> tag starts at i and ends at k: the name, whitespace, at most one "/"
\* directly before the ">"
IsBrTag(t, i, k) ==
    /\ MatchAtNoCase(t, i, <<"<", "b", "r">>)
    /\ k >= i + 3
    /\ k <= Len(t)
    /\ t[k] = ">"
    /\ \A j \in (i + 3)..(k - 1) : IsSpace(t[j]) \/ (j = k - 1 /\ t[j] = "/")

HasBrTag(t) ==
    \E i \in 1..Len(t) :
        /\ MatchAtNoCase(t, i, <<"<", "b", "r">>)
        /\ \E k \in (i + 3)..Len(t) : IsBrTag(t, i, k)

\* a <br> tag with no newline inside it
HasOneLineBrTag(t) ==
    \E i \in 1..Len(t) :
        /\ MatchAtNoCase(t, i, <<"<", "b", "r">>)
        /\ \E k \in (i + 3)..Len(t) :
              /\ IsBrTag(t, i, k)
              /\ \A j \in i..k : t[j] # "\n"

\* C9 as stated: the normalized text holds no <br> or <br/> tag, in any letter
\* case, with or without whitespace before the slash or the bracket.
C9_NoBrTagLeft ==
    Preprocessed => ~HasBrTag(processed_text.text)

\* C9 amended: every <br> or <br/> tag of the input, in any letter case and with
\* whitespace before the slash or the bracket, is replaced by a single newline in
\* one left-to-right pass.  A tag can be found afterwards only around a newline
\* the replacement put between the pieces of a broken tag ("<br<br>>" becomes
\* "<br", newline, ">"): the text after the replacement holds no tag free of
\* newlines, and neither does the normalized text of a path that is not a
\* special-category path.
C9_NoOneLineBrTagLeft ==
    Preprocessed =>
        /\ ~HasOneLineBrTag(BrToNewline(raw_text.text))
        /\ ~IsDigiPanp(file_path) => ~HasOneLineBrTag(processed_text.text)

\* a mixed-case tag with whitespace and a slash was in the input and the
\* normalized text holds a newline and no tag
C9_Witness ==
    /\ Preprocessed
    /\ ~IsDigiPanp(file_path)
    /\ raw_text.text = <<"<", "B", "r", " ", "/", ">">>
    /\ processed_text.text = <<"\n">>

====
